---------------------------- MODULE Spec2Model ----------------------------
(***************************************************************************)
(* Node arenas of the lambda-calculus sandbox                              *)
(* (sandbox/lang/lambda/context.cpp).                                      *)
(*                                                                         *)
(* term_factory owns the lists var, abs and app; stmt_factory owns the     *)
(* lists decls and evals.  Every make_* member function forwards to the    *)
(* generic emplace_node, which appends one element to a list and returns   *)
(* the address of the list's last element.                                 *)
(*                                                                         *)
(* A list is modelled as the sequence of its cells, each cell being the    *)
(* address the element lives at together with the element's value.  The    *)
(* free store is the finite set Addr; an address is free when no cell of   *)
(* either factory lives there.  The allocator may hand out any free        *)
(* address, and fails (std::bad_alloc) when none is left.                  *)
(*                                                                         *)
(* The member declarations and the (implicit) destructors are in           *)
(* context.hpp; emplace_back and the destructors below are written for     *)
(* the node-per-allocation list that emplace_node's parameter name (List)  *)
(* and the design text call for.                                           *)
(***************************************************************************)
EXTENDS Integers, Sequences, FiniteSets

VARIABLES
  term_factory,   \* [var, abs, app]: the three lists of the term arena
  stmt_factory,   \* [decls, evals]: the two lists of the statement arena
  term_alive,     \* the term_factory object has not been destroyed
  stmt_alive,     \* the stmt_factory object has not been destroyed
  ret,            \* outcome of the factory call performed last
  log             \* history of the factory calls that returned

vars == <<term_factory, stmt_factory, term_alive, stmt_alive, ret, log>>

(* Bounds of the model. *)
MaxAddr == 3
MaxCalls == 3

Addr == 1 .. MaxAddr
Symbol == {"x", "y"}

(* ----------------------------------------------------------------------- *)
(* Node values                                                             *)
(* ----------------------------------------------------------------------- *)

Variable_impl(sym) == [sym |-> sym]
Abstraction_impl(v, t) == [variable |-> v, body |-> t]
Application_impl(l, r) == [left |-> l, right |-> r]
Declaration_impl(v, d) == [variable |-> v, definition |-> d]
Evaluation_impl(t) == [term |-> t]

(* ----------------------------------------------------------------------- *)
(* Lists                                                                   *)
(* ----------------------------------------------------------------------- *)

CellAddrs(list) == {list[i].addr : i \in 1 .. Len(list)}

TermAddrs ==
  CellAddrs(term_factory.var) \cup CellAddrs(term_factory.abs)
    \cup CellAddrs(term_factory.app)

StmtAddrs == CellAddrs(stmt_factory.decls) \cup CellAddrs(stmt_factory.evals)

UsedAddrs == TermAddrs \cup StmtAddrs

FreeAddrs == Addr \ UsedAddrs

(* A growable array that moves to a new buffer when it grows: the new      *)
(* element takes the slot p and every older element is moved one slot on   *)
(* (variant used to test sensitivity to relocation).                       *)
emplace_back_relocating(list, p, val) ==
  [i \in 1 .. Len(list) + 1 |->
     IF i = Len(list) + 1
       THEN [addr |-> IF Len(list) = 0 THEN p ELSE list[Len(list)].addr, val |-> val]
       ELSE [addr |-> IF i = 1 THEN p ELSE list[i - 1].addr, val |-> list[i].val]]

(* list.emplace_back(args...): a new cell at the allocated address p is    *)
(* linked after the last one; no other cell is touched.                    *)
emplace_back(list, p, val) == Append(list, [addr |-> p, val |-> val])

(* &list.back(); reading back() of an empty list yields no valid address.  *)
addr_of_back(list) == IF Len(list) = 0 THEN 0 ELSE list[Len(list)].addr

(* Variant: the address is taken before the element is appended. *)
emplace_node_stale(list, p, val) ==
  [list |-> emplace_back(list, p, val), ret |-> addr_of_back(list)]

(* Variant: &list.front() is returned. *)
emplace_node_front(list, p, val) ==
  LET l2 == emplace_back(list, p, val) IN [list |-> l2, ret |-> l2[1].addr]

(* Variant: the last element is assigned instead of a new one appended. *)
emplace_node_overwrite(list, p, val) ==
  LET l2 == IF Len(list) = 0 THEN emplace_back(list, p, val)
            ELSE [list EXCEPT ![Len(list)].val = val]
  IN [list |-> l2, ret |-> addr_of_back(l2)]

(* emplace_node(list, args...): emplace_back, then &list.back(). *)
emplace_node(list, p, val) ==
  LET l2 == emplace_back(list, p, val) IN [list |-> l2, ret |-> addr_of_back(l2)]

(* ----------------------------------------------------------------------- *)
(* What the caller may pass: addresses handed back by earlier calls        *)
(* ----------------------------------------------------------------------- *)

TermOps == {"make_variable", "make_abstraction", "make_application"}
StmtOps == {"make_declaration", "make_evaluation"}

ReturnedBy(ops) == {log[k].ret : k \in {j \in 1 .. Len(log) : log[j].op \in ops}}

VariablePtrs == ReturnedBy({"make_variable"})
TermPtrs == ReturnedBy(TermOps)

Returned(a) == [thrown |-> FALSE, addr |-> a]
Thrown == [thrown |-> TRUE, addr |-> 0]

LogEntry(name, args, member, r) ==
  [op |-> name, args |-> args, member |-> member, ret |-> r.ret, idx |-> Len(r.list)]

(* The allocation failed: the exception leaves the lists as they were. *)
bad_alloc ==
  /\ FreeAddrs = {}
  /\ ret' = Thrown
  /\ UNCHANGED <<term_factory, stmt_factory, term_alive, stmt_alive, log>>

(* A member function of term_factory that emplaces val into list member. *)
TermCall(name, args, member, val) ==
  /\ term_alive
  /\ \/ \E p \in FreeAddrs :
          LET r == emplace_node(term_factory[member], p, val) IN
            /\ Len(log) < MaxCalls
            /\ term_factory' = [term_factory EXCEPT ![member] = r.list]
            /\ ret' = Returned(r.ret)
            /\ log' = Append(log, LogEntry(name, args, member, r))
            /\ UNCHANGED <<stmt_factory, term_alive, stmt_alive>>
     \/ bad_alloc

(* A member function of stmt_factory that emplaces val into list member. *)
StmtCall(name, args, member, val) ==
  /\ stmt_alive
  /\ \/ \E p \in FreeAddrs :
          LET r == emplace_node(stmt_factory[member], p, val) IN
            /\ Len(log) < MaxCalls
            /\ stmt_factory' = [stmt_factory EXCEPT ![member] = r.list]
            /\ ret' = Returned(r.ret)
            /\ log' = Append(log, LogEntry(name, args, member, r))
            /\ UNCHANGED <<term_factory, term_alive, stmt_alive>>
     \/ bad_alloc

(* ----------------------------------------------------------------------- *)
(* term_factory                                                            *)
(* ----------------------------------------------------------------------- *)

make_variable(sym) ==
  TermCall("make_variable", <<sym>>, "var", Variable_impl(sym))

(* Variant: the node is emplaced into the list of another kind. *)
make_abstraction_wrong_list(v, t) ==
  TermCall("make_abstraction", <<v, t>>, "app", Application_impl(v, t))

make_abstraction(v, t) ==
  TermCall("make_abstraction", <<v, t>>, "abs", Abstraction_impl(v, t))

(* Variant: the two arguments are forwarded in the wrong order. *)
make_application_swapped(l, r) ==
  TermCall("make_application", <<l, r>>, "app", Application_impl(r, l))

make_application(l, r) ==
  TermCall("make_application", <<l, r>>, "app", Application_impl(l, r))

(* ----------------------------------------------------------------------- *)
(* stmt_factory                                                            *)
(* ----------------------------------------------------------------------- *)

(* Variant: the variable is forwarded twice, the definition dropped. *)
make_declaration_dup(v, d) ==
  StmtCall("make_declaration", <<v, d>>, "decls", Declaration_impl(v, v))

make_declaration(v, d) ==
  StmtCall("make_declaration", <<v, d>>, "decls", Declaration_impl(v, d))

(* Variant: the evaluation is emplaced into storage of the term arena. *)
make_evaluation_into_terms(t) ==
  /\ stmt_alive
  /\ \/ \E p \in FreeAddrs :
          LET r == emplace_node(term_factory.app, p, Application_impl(t, t)) IN
            /\ Len(log) < MaxCalls
            /\ term_factory' = [term_factory EXCEPT !.app = r.list]
            /\ ret' = Returned(r.ret)
            /\ log' = Append(log, LogEntry("make_evaluation", <<t>>, "evals", r))
            /\ UNCHANGED <<stmt_factory, term_alive, stmt_alive>>
     \/ bad_alloc

make_evaluation(t) ==
  StmtCall("make_evaluation", <<t>>, "evals", Evaluation_impl(t))

(* ----------------------------------------------------------------------- *)
(* Destruction: the lists of the object are destroyed with it, which       *)
(* frees every cell they hold.                                             *)
(* ----------------------------------------------------------------------- *)

destroy_term_factory ==
  /\ term_alive
  /\ term_alive' = FALSE
  /\ term_factory' = [var |-> <<>>, abs |-> <<>>, app |-> <<>>]
  /\ UNCHANGED <<stmt_factory, stmt_alive, ret, log>>

destroy_stmt_factory ==
  /\ stmt_alive
  /\ stmt_alive' = FALSE
  /\ stmt_factory' = [decls |-> <<>>, evals |-> <<>>]
  /\ UNCHANGED <<term_factory, term_alive, ret, log>>

(* ----------------------------------------------------------------------- *)
(* Specification                                                           *)
(* ----------------------------------------------------------------------- *)

Init ==
  /\ term_factory = [var |-> <<>>, abs |-> <<>>, app |-> <<>>]
  /\ stmt_factory = [decls |-> <<>>, evals |-> <<>>]
  /\ term_alive = TRUE
  /\ stmt_alive = TRUE
  /\ ret = Returned(0)
  /\ log = <<>>

Next ==
  \/ \E sym \in Symbol : make_variable(sym)
  \/ \E v \in VariablePtrs, t \in TermPtrs : make_abstraction(v, t)
  \/ \E l \in TermPtrs, r \in TermPtrs : make_application(l, r)
  \/ \E v \in VariablePtrs, d \in TermPtrs : make_declaration(v, d)
  \/ \E t \in TermPtrs : make_evaluation(t)
  \/ destroy_term_factory
  \/ destroy_stmt_factory

Spec == Init /\ [][Next]_vars

(* ----------------------------------------------------------------------- *)
(* Reading the history                                                     *)
(* ----------------------------------------------------------------------- *)

TermMembers == {"var", "abs", "app"}
StmtMembers == {"decls", "evals"}

ListOf(member) ==
  IF member \in TermMembers THEN term_factory[member] ELSE stmt_factory[member]

OwnerAlive(member) == IF member \in TermMembers THEN term_alive ELSE stmt_alive

Calls == 1 .. Len(log)

(* The calls whose arena still exists. *)
LiveCalls == {k \in Calls : OwnerAlive(log[k].member)}

HasCell(k) == log[k].idx \in 1 .. Len(ListOf(log[k].member))

(* The element that call k appended. *)
CellOf(k) == ListOf(log[k].member)[log[k].idx]

(* The step is a factory call named name that returned. *)
Called(name) == Len(log') = Len(log) + 1 /\ log'[Len(log')].op = name

CalledOneOf(ops) == Len(log') = Len(log) + 1 /\ log'[Len(log')].op \in ops

(* ----------------------------------------------------------------------- *)
(* C1                                                                      *)
(* ----------------------------------------------------------------------- *)

(* C1: Address stability.  As long as the arena exists, the address that   *)
(* call k returned is the address of the element call k appended, however  *)
(* many calls were made after it.                                          *)
C1_AddressStability ==
  \A k \in LiveCalls :
    /\ HasCell(k)
    /\ log[k].ret \in Addr
    /\ CellOf(k).addr = log[k].ret

(* Three calls returned, the arena of the first is alive, and a later call *)
(* grew the very list the first call appended to.                          *)
C1_Witness ==
  /\ Len(log) >= 3
  /\ 1 \in LiveCalls
  /\ \E k \in Calls : k > 1 /\ log[k].member = log[1].member
  /\ C1_AddressStability

(* ----------------------------------------------------------------------- *)
(* C2, C3                                                                  *)
(* ----------------------------------------------------------------------- *)

CallsOf(name) == {k \in LiveCalls : log[k].op = name /\ HasCell(k)}

(* C2: Referential integrity of terms.  The Abstraction made by            *)
(* make_abstraction(v, t) holds variable = v and body = t, the Application *)
(* made by make_application(l, r) holds left = l and right = r, and two    *)
(* Applications given the same address hold that same address.             *)
C2_TermReferentialIntegrity ==
  /\ \A k \in CallsOf("make_abstraction") :
       /\ CellOf(k).val.variable = log[k].args[1]
       /\ CellOf(k).val.body = log[k].args[2]
  /\ \A k \in CallsOf("make_application") :
       /\ CellOf(k).val.left = log[k].args[1]
       /\ CellOf(k).val.right = log[k].args[2]
  /\ \A j, k \in CallsOf("make_application") :
       /\ log[j].args[1] = log[k].args[1] => CellOf(j).val.left = CellOf(k).val.left
       /\ log[j].args[2] = log[k].args[2] => CellOf(j).val.right = CellOf(k).val.right
       /\ log[j].args[1] = log[k].args[2] => CellOf(j).val.left = CellOf(k).val.right

(* One term was passed as the left operand of two different Applications,  *)
(* one of them with a different right operand.                             *)
C2_Witness ==
  \E j, k \in CallsOf("make_application") :
    /\ j < k
    /\ log[j].args[1] = log[k].args[1]
    /\ log[k].args[1] # log[k].args[2]
    /\ CellOf(j).addr # CellOf(k).addr
    /\ CellOf(j).val.left = CellOf(k).val.left

(* C3: Referential integrity of statements.  The Declaration made by       *)
(* make_declaration(variable, definition) holds exactly these two          *)
(* addresses, and the Evaluation made by make_evaluation(term) holds       *)
(* exactly that address.                                                   *)
C3_StmtReferentialIntegrity ==
  /\ \A k \in CallsOf("make_declaration") :
       /\ CellOf(k).val.variable = log[k].args[1]
       /\ CellOf(k).val.definition = log[k].args[2]
  /\ \A k \in CallsOf("make_evaluation") :
       CellOf(k).val.term = log[k].args[1]

(* A Declaration whose definition is not its variable has been made. *)
C3_Witness ==
  \E k \in CallsOf("make_declaration") :
    /\ log[k].args[1] # log[k].args[2]
    /\ CellOf(k).val = Declaration_impl(log[k].args[1], log[k].args[2])

(* ----------------------------------------------------------------------- *)
(* C4, C5, C6                                                              *)
(* ----------------------------------------------------------------------- *)

(* C4: Independence across node kinds.  A make_variable call leaves the    *)
(* Abstractions and Applications as they were (number, addresses and       *)
(* contents), make_abstraction leaves the Variables and Applications, and  *)
(* make_application leaves the Variables and Abstractions.                 *)
C4_KindIndependence ==
  [][/\ Called("make_variable") =>
          term_factory'.abs = term_factory.abs /\ term_factory'.app = term_factory.app
     /\ Called("make_abstraction") =>
          term_factory'.var = term_factory.var /\ term_factory'.app = term_factory.app
     /\ Called("make_application") =>
          term_factory'.var = term_factory.var /\ term_factory'.abs = term_factory.abs
    ]_vars

(* An Application was made and, after it, a node of another kind (a        *)
(* Variable or an Abstraction); the Application still holds what it was    *)
(* given.                                                                  *)
C4_Witness ==
  /\ term_alive
  /\ \E j, k \in Calls :
       /\ j < k
       /\ log[j].op = "make_application"
       /\ log[k].op \in {"make_variable", "make_abstraction"}
       /\ HasCell(j)
       /\ CellOf(j) = [addr |-> log[j].ret,
                       val |-> Application_impl(log[j].args[1], log[j].args[2])]

(* Every cell of list l is in l2, at its place and with its contents. *)
Preserved(l, l2) == Len(l2) >= Len(l) /\ \A i \in 1 .. Len(l) : l2[i] = l[i]

(* C5: Append-only.  While an arena exists, no step removes one of its     *)
(* nodes or changes what a node holds: every list keeps all its cells,     *)
(* each with the address and the fields it had.                            *)
C5_AppendOnly ==
  [][/\ term_alive' => \A m \in TermMembers : Preserved(term_factory[m], term_factory'[m])
     /\ stmt_alive' => \A m \in StmtMembers : Preserved(stmt_factory[m], stmt_factory'[m])
    ]_vars

(* A list holds two cells, the first made by the first call: the second    *)
(* append left the first cell in place.                                    *)
C5_Witness ==
  \E k \in LiveCalls :
    /\ k > 1
    /\ log[k].member = log[1].member
    /\ Len(ListOf(log[1].member)) >= 2
    /\ ListOf(log[1].member)[1].addr = log[1].ret

TermStep == term_alive' # term_alive \/ CalledOneOf(TermOps)
StmtStep == stmt_alive' # stmt_alive \/ CalledOneOf(StmtOps)

(* C6: Independence of the two arenas.  A step of the Statement Arena (a   *)
(* factory call or its destruction) leaves the Term Arena as it was, and   *)
(* a step of the Term Arena leaves the Statement Arena as it was.          *)
C6_ArenaIndependence ==
  [][/\ StmtStep => term_factory' = term_factory /\ term_alive' = term_alive
     /\ TermStep => stmt_factory' = stmt_factory /\ stmt_alive' = stmt_alive
    ]_vars

(* The Statement Arena made a node and was destroyed; the Term Arena is    *)
(* alive and still holds its nodes.                                        *)
C6_Witness ==
  /\ ~stmt_alive
  /\ term_alive
  /\ \E k \in Calls : log[k].op \in StmtOps
  /\ \A k \in Calls : log[k].op \in TermOps => HasCell(k) /\ CellOf(k).addr = log[k].ret

(* ----------------------------------------------------------------------- *)
(* C7, C8                                                                  *)
(* ----------------------------------------------------------------------- *)

(* The arena can take one more node: memory is left, and the model's cap   *)
(* on the length of the history is not reached.                            *)
Room == FreeAddrs # {} /\ Len(log) < MaxCalls

Succeeds == ret'.thrown = FALSE /\ ret'.addr \in Addr

(* C7: Factory operations always succeed.  A live arena never refuses an   *)
(* append: with memory left and valid references at hand, each of the five *)
(* factory operations can be performed and returns the address of a node   *)
(* it created; no call ever returned a null address, and a call fails only *)
(* when no memory is left.                                                 *)
C7_AlwaysSucceeds ==
  /\ term_alive /\ Room =>
       /\ ENABLED (\E sym \in Symbol : make_variable(sym) /\ Succeeds)
       /\ VariablePtrs # {} =>
            ENABLED (\E v \in VariablePtrs, t \in TermPtrs : make_abstraction(v, t) /\ Succeeds)
       /\ TermPtrs # {} =>
            ENABLED (\E l \in TermPtrs, r \in TermPtrs : make_application(l, r) /\ Succeeds)
  /\ stmt_alive /\ Room =>
       /\ VariablePtrs # {} =>
            ENABLED (\E v \in VariablePtrs, d \in TermPtrs : make_declaration(v, d) /\ Succeeds)
       /\ TermPtrs # {} =>
            ENABLED (\E t \in TermPtrs : make_evaluation(t) /\ Succeeds)
  /\ \A k \in Calls : log[k].ret \in Addr
  /\ \A k \in LiveCalls : HasCell(k) /\ log[k].ret \in CellAddrs(ListOf(log[k].member))
  /\ ret.thrown /\ term_alive /\ stmt_alive => FreeAddrs = {}

(* Both arenas are alive, two nodes exist, the last call returned the      *)
(* address of a node, and a further call of every kind is possible.        *)
C7_Witness ==
  /\ term_alive /\ stmt_alive /\ Room
  /\ Len(log) = 2
  /\ VariablePtrs # {}
  /\ ~ret.thrown /\ ret.addr = log[2].ret /\ ret.addr \in UsedAddrs

MemberFor(name) ==
  CASE name = "make_variable" -> "var"
    [] name = "make_abstraction" -> "abs"
    [] name = "make_application" -> "app"
    [] name = "make_declaration" -> "decls"
    [] name = "make_evaluation" -> "evals"

(* The node the call is to construct from its arguments. *)
NodeFor(name, args) ==
  CASE name = "make_variable" -> Variable_impl(args[1])
    [] name = "make_abstraction" -> Abstraction_impl(args[1], args[2])
    [] name = "make_application" -> Application_impl(args[1], args[2])
    [] name = "make_declaration" -> Declaration_impl(args[1], args[2])
    [] name = "make_evaluation" -> Evaluation_impl(args[1])

AllLists == [m \in TermMembers \cup StmtMembers |-> ListOf(m)]

(* C8: Each factory call that returns grows the one list of its node kind  *)
(* by one element, put at the end and constructed from the arguments,      *)
(* leaves the four other lists as they were, and returns the address of    *)
(* that last element.                                                      *)
C8_GrowsOneListByOne ==
  [][CalledOneOf(TermOps \cup StmtOps) =>
       LET e == log'[Len(log')]
           m == MemberFor(e.op)
       IN /\ AllLists'[m] =
               Append(AllLists[m], [addr |-> ret'.addr, val |-> NodeFor(e.op, e.args)])
          /\ \A n \in (TermMembers \cup StmtMembers) \ {m} : AllLists'[n] = AllLists[n]
          /\ ret'.thrown = FALSE
          /\ ret'.addr = AllLists'[m][Len(AllLists'[m])].addr
          /\ ret'.addr \in Addr
    ]_vars

(* The last call appended a second element to its list and returned the    *)
(* address of that second element, not of the first.                       *)
C8_Witness ==
  /\ Len(log) >= 2
  /\ LET e == log[Len(log)] IN
       /\ OwnerAlive(e.member)
       /\ Len(ListOf(e.member)) = 2
       /\ e.idx = 2
       /\ ret = Returned(ListOf(e.member)[2].addr)
       /\ ListOf(e.member)[2].val = NodeFor(e.op, e.args)
       /\ ListOf(e.member)[1].addr # ret.addr

(* ----------------------------------------------------------------------- *)
(* C9, C10                                                                 *)
(* ----------------------------------------------------------------------- *)

(* The addresses a node stores. *)
RefsOfVal(name, val) ==
  CASE name = "make_variable" -> {}
    [] name = "make_abstraction" -> {val.variable, val.body}
    [] name = "make_application" -> {val.left, val.right}
    [] name = "make_declaration" -> {val.variable, val.definition}
    [] name = "make_evaluation" -> {val.term}

(* Address x was returned by a term call made before call k, and it is the *)
(* address of the node that call made for as long as the Term Arena lives. *)
MadeBefore(x, k) ==
  \E j \in 1 .. k - 1 :
    /\ log[j].op \in TermOps
    /\ log[j].ret = x
    /\ term_alive => HasCell(j) /\ CellOf(j).addr = x

(* The term cells (list and position; a list never holds more cells than   *)
(* there are addresses) and the links between them.                        *)
TermCells == {c \in TermMembers \X Addr : c[2] <= Len(term_factory[c[1]])}

LinksOf(c) ==
  LET val == term_factory[c[1]][c[2]].val IN
    CASE c[1] = "var" -> {}
      [] c[1] = "abs" -> {val.variable, val.body}
      [] c[1] = "app" -> {val.left, val.right}

AddrOfCell(c) == term_factory[c[1]][c[2]].addr

Children(c) == {d \in TermCells : AddrOfCell(d) \in LinksOf(c)}

RECURSIVE Descendants(_, _)
Descendants(cs, n) ==
  IF n = 0 THEN {}
  ELSE LET next == UNION {Children(c) : c \in cs} IN next \cup Descendants(next, n - 1)

(* C9: Dependency order.  With the caller passing only addresses that      *)
(* earlier calls returned, every address stored in an Abstraction,         *)
(* Application, Declaration or Evaluation is the address of a node made by *)
(* a strictly earlier call; so no term is among its own descendants, and   *)
(* none refers to itself.                                                  *)
C9_DependencyOrder ==
  /\ \A k \in LiveCalls :
       HasCell(k) /\ \A x \in RefsOfVal(log[k].op, CellOf(k).val) : MadeBefore(x, k)
  /\ \A c \in TermCells :
       c[1] # "var" =>
         /\ AddrOfCell(c) \notin LinksOf(c)
         /\ c \notin Descendants({c}, Cardinality(TermCells))

(* A chain of three terms: an Application of an Abstraction of a Variable  *)
(* (or the like), each made after the one it refers to.                    *)
C9_Witness ==
  /\ term_alive
  /\ \E c \in TermCells : \E d \in Children(c) : Children(d) # {}
  /\ \A k \in LiveCalls : \A x \in RefsOfVal(log[k].op, CellOf(k).val) : MadeBefore(x, k)

ArenaOf(name) == IF name \in TermOps THEN "term_factory" ELSE "stmt_factory"

(* The number of nodes that exist. *)
NodeCount ==
  Len(term_factory.var) + Len(term_factory.abs) + Len(term_factory.app)
    + Len(stmt_factory.decls) + Len(stmt_factory.evals)

(* C10: Freshness.  Within one arena, the address a call returns differs   *)
(* from the address every earlier call returned, also when the arguments   *)
(* are the same; and no two nodes that exist have the same address.        *)
C10_Freshness ==
  /\ \A j, k \in Calls :
       j < k /\ ArenaOf(log[j].op) = ArenaOf(log[k].op) => log[j].ret # log[k].ret
  /\ Cardinality(UsedAddrs) = NodeCount

(* Two make_variable calls with the same Symbol returned two addresses,    *)
(* and two Variables holding that Symbol exist.                            *)
C10_Witness ==
  \E j, k \in Calls :
    /\ j < k
    /\ log[j].op = "make_variable" /\ log[k].op = "make_variable"
    /\ log[j].args = log[k].args
    /\ log[j].ret # log[k].ret
    /\ term_alive
    /\ Len(term_factory.var) >= 2
    /\ term_factory.var[1].val = term_factory.var[2].val

=============================================================================
